---- MODULE Spec2Model ----
(***************************************************************************)
(* Model of the document anonymizer: src/doc_anonymizer.py (the batch      *)
(* tool with the session-wide entity mapping, the whitelist and the set of *)
(* unique redactions) and the text redactor of                             *)
(* src/multiformats_anonymizer.py.                                         *)
(*                                                                         *)
(* Texts are strings; offsets are 0-based and half-open as in Python.      *)
(* The entity detector (spaCy) is external: its answer for a text is any   *)
(* sequence of labelled spans ordered by start offset and pairwise         *)
(* non-overlapping, which is what doc.ents guarantees.                     *)
(***************************************************************************)
EXTENDS Integers, Sequences, FiniteSets, Bags, TLC

VARIABLES
    pc,                \* position of the driver: "main", "single", "folder", "file"
    leftover,          \* history: the current run was started with entries left in entity_mapping
    mode,              \* the processing mode of the current run: "1" or "2"
    WHITELIST,         \* module global WHITELIST
    entity_mapping,    \* module global entity_mapping: surface text -> placeholder
    unique_redactions, \* module global unique_redactions, a bag of <<file, original, placeholder>>
    filename,          \* the file being processed
    processed,         \* files of the folder the loop of process_folder has taken
    failed,            \* files whose processing raised
    units,             \* text units (runs, cells, pages) handled in this run
    substituted,       \* history: <<file, original, placeholder>> of every splice made
    blacked,           \* history: <<file, word>> of every redaction area registered
    text,              \* SpecCall: argument of the call
    ents,              \* SpecCall: the detector's answer for it
    subs,              \* SpecCall: per occurrence, the placeholder spliced in (NONE when skipped)
    new_text,          \* SpecCall: value returned by anonymize_text
    annots,            \* SpecCall: redaction areas registered on the page
    log,               \* rows written by save_replacement_log in this run
    replacement_log    \* multiformats_anonymizer.py: module global replacement_log

vars == <<pc, leftover, mode, WHITELIST, entity_mapping, unique_redactions, filename,
          processed, failed, units, substituted, blacked, text, ents, subs, new_text,
          annots, log, replacement_log>>

----------------------------------------------------------------------------
(* Bounds of the model *)

MaxLen == 2     \* longest generated text
MaxEnts == 2    \* most occurrences the detector returns for one text
MaxUnits == 2   \* most text units handled in one run
MaxFiles == 2   \* most files in the folder of a batch run

Alphabet == {"a", "b"}
Whitespace == {" "}

AcmeMetBob == "Acme met Bob"
AcmeMetBobEnts ==
    << [start |-> 0, end |-> 4, label |-> "ORG"],
       [start |-> 9, end |-> 12, label |-> "PERSON"] >>

\* Other answers of the detector for that text: a span longer than its
\* placeholder, the two remaining supported labels, an unsupported label
\* between two supported ones
AcmeMetBobOtherEnts ==
    { << [start |-> 0, end |-> 9, label |-> "PERSON"],
         [start |-> 9, end |-> 12, label |-> "ORG"] >>,
      << [start |-> 0, end |-> 4, label |-> "PRODUCT"],
         [start |-> 9, end |-> 12, label |-> "GPE"] >>,
      << [start |-> 0, end |-> 4, label |-> "ORG"],
         [start |-> 5, end |-> 8, label |-> "DATE"],
         [start |-> 9, end |-> 12, label |-> "PERSON"] >> }

Files == {"a.docx", "b.xlsx", "c.pdf", "d.txt"}

\* os.path.splitext(filename.lower())[1]
Ext(f) ==
    CASE f = "a.docx" -> ".docx"
      [] f = "b.xlsx" -> ".xlsx"
      [] f = "c.pdf" -> ".pdf"
      [] OTHER -> ".txt"

NONE == ""

----------------------------------------------------------------------------
(* Program constants and helpers *)

CUSTOM_LABELS_WithDate ==
    [l \in {"ORG", "PERSON", "GPE", "PRODUCT", "DATE"} |->
        CASE l = "ORG" -> "[ORG_NAME]"
          [] l = "PERSON" -> "[PERSON]"
          [] l = "GPE" -> "[LOCATION]"
          [] l = "PRODUCT" -> "[PRODUCT_NAME]"
          [] OTHER -> "[DATE]"]

CUSTOM_LABELS ==
    [l \in {"ORG", "PERSON", "GPE", "PRODUCT"} |->
        CASE l = "ORG" -> "[ORG_NAME]"
          [] l = "PERSON" -> "[PERSON]"
          [] l = "GPE" -> "[LOCATION]"
          [] OTHER -> "[PRODUCT_NAME]"]

CUSTOM_LABELS_MF ==
    [l \in {"ORG", "PERSON", "GPE", "PRODUCT"} |->
        CASE l = "ORG" -> "[CLIENT_NAME]"
          [] l = "PERSON" -> "[PERSON]"
          [] l = "GPE" -> "[LOCATION]"
          [] OTHER -> "[PRODUCT_NAME]"]

\* Labels the detector gives in the model; DATE stands for every label outside
\* CUSTOM_LABELS
Labels == {"ORG", "PERSON", "DATE"}

Min(a, b) == IF a < b THEN a ELSE b

\* Python t[a:b] for 0 <= a, b (indices past the end are clamped)
Slice(t, a, b) == SubSeq(t, Min(a, Len(t)) + 1, Min(b, Len(t)))

\* Python t[a:]
SliceFrom(t, a) == SubSeq(t, Min(a, Len(t)) + 1, Len(t))

\* ent.text
EntText(t, e) == Slice(t, e.start, e.end)

RECURSIVE LStrip(_)
LStrip(t) ==
    IF Len(t) > 0 /\ SubSeq(t, 1, 1) \in Whitespace THEN LStrip(SliceFrom(t, 1)) ELSE t

RECURSIVE RStrip(_)
RStrip(t) ==
    IF Len(t) > 0 /\ SubSeq(t, Len(t), Len(t)) \in Whitespace
    THEN RStrip(Slice(t, 0, Len(t) - 1)) ELSE t

\* str.strip()
Strip(t) == RStrip(LStrip(t))

Forward(s) == s

\* reversed(doc.ents)
Reversed(s) == [i \in 1..Len(s) |-> s[Len(s) + 1 - i]]

NeverInWhitelist(s, wl) == FALSE

\* ent.text in WHITELIST
InWhitelist(s, wl) == s \in wl

ListAppend(b, r) == b (+) SetToBag({r})

\* set.add: an element already present is not added again
SetAdd(b, r) == IF BagIn(r, b) THEN b ELSE b (+) SetToBag({r})

NotCleared(c) == c

\* dict.clear() and set.clear(): the empty collection
Cleared(c) == <<>>

----------------------------------------------------------------------------
(* Inputs: texts and detector answers *)

RECURSIVE TextsOfLen(_)
TextsOfLen(n) ==
    IF n = 0 THEN {""} ELSE {t \o c : t \in TextsOfLen(n - 1), c \in Alphabet}

Texts == UNION {TextsOfLen(n) : n \in 0..MaxLen} \cup {" "}

\* Answers of the detector for a text of length n: at most k labelled spans,
\* each non-empty, ordered by start offset, none starting before `from`.
RECURSIVE EntSeqs(_, _, _)
EntSeqs(n, from, k) ==
    {<<>>} \cup
    (IF k = 0 THEN {}
     ELSE UNION {UNION {UNION {
            {<<[start |-> s, end |-> e, label |-> l]>> \o rest :
                rest \in EntSeqs(n, e, k - 1)}
            : l \in Labels} : e \in (s + 1)..n} : s \in from..(n - 1)})

\* nlp(text).ents; a text of whitespace only has no occurrence
Detections(t) ==
    IF Strip(t) = "" THEN {<<>>}
    ELSE IF t = AcmeMetBob
    THEN {<<>>, <<AcmeMetBobEnts[1]>>, <<AcmeMetBobEnts[2]>>, AcmeMetBobEnts}
         \cup AcmeMetBobOtherEnts
    ELSE EntSeqs(Len(t), 0, MaxEnts)

\* Texts of the files of a session
Corpus == {"", " ", "aa", "ab"}

\* nlp(text).ents for a text of the corpus
CorpusDetections(t) == IF Strip(t) = "" THEN {<<>>} ELSE EntSeqs(Len(t), 0, Len(t))

Whitelists == {{}, {"b"}}

----------------------------------------------------------------------------
(* doc_anonymizer.py: anonymize_text *)

MapPut(m, s, p) == [x \in (DOMAIN m) \cup {s} |-> IF x = s THEN p ELSE m[x]]

AlwaysByLabel(m, s, label) == CUSTOM_LABELS[label]

\* the placeholder of one occurrence: the mapped one, else the label's
Resolve(m, s, label) == IF s \notin DOMAIN m THEN CUSTOM_LABELS[label] ELSE m[s]

\* new_text[:start_char] + placeholder + new_text[end_char:]
Splice(t, a, b, p) == Slice(t, 0, a) \o p \o SliceFrom(t, b)

\* One iteration of the loop over reversed(doc.ents).  st carries new_text,
\* the two globals and the placeholder chosen per occurrence; i is the
\* occurrence's index in doc.ents.
AnonStep(st, t, es, i, fname, wl) ==
    LET e == es[i]
        s == EntText(t, e)
    IN  IF e.label \notin DOMAIN CUSTOM_LABELS THEN st
        ELSE IF InWhitelist(s, wl) THEN st
        ELSE LET p == Resolve(st.mapping, s, e.label)
                 fresh == s \notin DOMAIN st.mapping
             IN  [new_text |-> Splice(st.new_text, e.start, e.end, p),
                  mapping |-> IF fresh THEN MapPut(st.mapping, s, p) ELSE st.mapping,
                  audit |-> IF fresh THEN SetAdd(st.audit, <<fname, s, p>>) ELSE st.audit,
                  subs |-> [st.subs EXCEPT ![i] = p]]

RECURSIVE AnonLoop(_, _, _, _, _, _)
AnonLoop(order, st, t, es, fname, wl) ==
    IF order = <<>> THEN st
    ELSE AnonLoop(Tail(order), AnonStep(st, t, es, Head(order), fname, wl),
                  t, es, fname, wl)

\* anonymize_text(text, filename) with doc.ents = es
anonymize_text(t, es, fname, m, audit, wl) ==
    AnonLoop(Reversed([i \in 1..Len(es) |-> i]),
             [new_text |-> t, mapping |-> m, audit |-> audit,
              subs |-> [i \in 1..Len(es) |-> NONE]],
             t, es, fname, wl)

----------------------------------------------------------------------------
(* multiformats_anonymizer.py: anonymize_text *)

AnonStepMF(st, t, es, i) ==
    LET e == es[i]
    IN  IF e.label \notin DOMAIN CUSTOM_LABELS_MF THEN st
        ELSE LET p == CUSTOM_LABELS_MF[e.label]
             IN  [new_text |-> Splice(st.new_text, e.start, e.end, p),
                  rlog |-> Append(st.rlog, <<EntText(t, e), p>>),
                  subs |-> [st.subs EXCEPT ![i] = p]]

RECURSIVE AnonLoopMF(_, _, _, _)
AnonLoopMF(order, st, t, es) ==
    IF order = <<>> THEN st
    ELSE AnonLoopMF(Tail(order), AnonStepMF(st, t, es, Head(order)), t, es)

anonymize_text_mf(t, es, rlog) ==
    AnonLoopMF(Reversed([i \in 1..Len(es) |-> i]),
               [new_text |-> t, rlog |-> rlog, subs |-> [i \in 1..Len(es) |-> NONE]],
               t, es)

----------------------------------------------------------------------------
(* doc_anonymizer.py: redact_pdf, one page *)

\* page.search_for(word): the start offsets at which word is drawn on the page
SearchFor(t, w) == {a \in 0..(Len(t) - Len(w)) : Slice(t, a, a + Len(w)) = w}

RECURSIVE AddTimes(_, _, _)
AddTimes(b, r, n) == IF n = 0 THEN b ELSE AddTimes(SetAdd(b, r), r, n - 1)

\* entities = [(ent.text, ent.label_) for ent in nlp(text).ents if ent.label_ in CUSTOM_LABELS]
PdfEntities(t, es) ==
    SelectSeq([i \in 1..Len(es) |-> <<EntText(t, es[i]), es[i].label>>],
              LAMBDA x : x[2] \in DOMAIN CUSTOM_LABELS)

\* The loop over the page's entities and, for each, over its areas
RECURSIVE PdfLoop(_, _, _, _)
PdfLoop(todo, st, t, fname) ==
    IF todo = <<>> THEN st
    ELSE LET word == Head(todo)[1]
             label == Head(todo)[2]
             areas == SearchFor(t, word)
         IN  PdfLoop(Tail(todo),
                     [annots |-> st.annots \cup {<<word, a>> : a \in areas},
                      audit |-> AddTimes(st.audit, <<fname, word, CUSTOM_LABELS[label]>>,
                                         Cardinality(areas))],
                     t, fname)

redact_pdf_page(t, es, fname, audit) ==
    PdfLoop(PdfEntities(t, es), [annots |-> {}, audit |-> audit], t, fname)

----------------------------------------------------------------------------
(* doc_anonymizer.py: the driver *)

NoLog == [written |-> FALSE, rows |-> {}]

\* save_replacement_log: one row per element of unique_redactions (the rows
\* are written in sorted order, which the set determines)
save_replacement_log(audit) == [written |-> TRUE, rows |-> BagToSet(audit)]

Supported(f) == Ext(f) \in {".docx", ".xlsx", ".pdf"}

Init ==
    /\ pc = "main"
    /\ leftover = FALSE
    /\ mode = "1"
    /\ WHITELIST = {}
    /\ entity_mapping = <<>>
    /\ unique_redactions = <<>>
    /\ filename = ""
    /\ processed = {}
    /\ failed = {}
    /\ units = 0
    /\ substituted = {}
    /\ blacked = {}
    /\ text = ""
    /\ ents = <<>>
    /\ subs = <<>>
    /\ new_text = ""
    /\ annots = {}
    /\ log = NoLog
    /\ replacement_log = <<>>

\* The block under __main__: the whitelist is read, then a valid selection
\* clears both globals and calls process_single_file or process_folder.
\* The globals are module state and outlive a run, so the block can be
\* entered again with whatever the run before left in them.
Main(m, wl, paths_exist) ==
    /\ pc = "main"
    /\ WHITELIST' = wl
    /\ IF m \in {"1", "2"} /\ paths_exist
       THEN /\ unique_redactions' = Cleared(unique_redactions)
            /\ entity_mapping' = Cleared(entity_mapping)
            /\ mode' = m
            /\ pc' = IF m = "1" THEN "single" ELSE "folder"
            /\ filename' = ""
            /\ processed' = {}
            /\ failed' = {}
            /\ units' = 0
            /\ substituted' = {}
            /\ blacked' = {}
            /\ log' = NoLog
            /\ leftover' = (DOMAIN entity_mapping # {})
       ELSE UNCHANGED <<pc, leftover, mode, entity_mapping, unique_redactions, filename, processed,
                        failed, units, substituted, blacked, log>>
    /\ UNCHANGED <<text, ents, subs, new_text, annots, replacement_log>>

\* process_single_file up to the dispatch on the extension
SingleDispatch(f) ==
    /\ pc = "single"
    /\ filename' = f
    /\ pc' = IF Supported(f) THEN "file" ELSE "main"
    /\ UNCHANGED <<leftover, mode, WHITELIST, entity_mapping, unique_redactions, processed,
                   failed, units, substituted, blacked, text, ents, subs, new_text,
                   annots, log, replacement_log>>

\* process_folder: the loop takes the next file of the listing
FolderNext(f) ==
    /\ pc = "folder"
    /\ f \notin processed
    /\ Cardinality(processed) < MaxFiles
    /\ filename' = f
    /\ processed' = processed \cup {f}
    /\ pc' = IF Supported(f) THEN "file" ELSE "folder"
    /\ UNCHANGED <<leftover, mode, WHITELIST, entity_mapping, unique_redactions,
                   failed, units, substituted, blacked, text, ents, subs, new_text,
                   annots, log, replacement_log>>

\* process_folder: the listing is exhausted, the log is saved
FolderEnd ==
    /\ pc = "folder"
    /\ log' = save_replacement_log(unique_redactions)
    /\ pc' = "main"
    /\ UNCHANGED <<leftover, mode, WHITELIST, entity_mapping, unique_redactions, filename,
                   processed, failed, units, substituted, blacked, text, ents, subs,
                   new_text, annots, replacement_log>>

\* The splices a call made: <<file, ent.text, placeholder>> per replaced occurrence
Splices(t, es, ss, fname) ==
    {<<fname, EntText(t, es[i]), ss[i]>> : i \in {j \in 1..Len(es) : ss[j] # NONE}}

\* The call anonymize_text(t, filename) made for one run or cell
CallAnonymize(t, es) ==
    LET r == anonymize_text(t, es, filename, entity_mapping, unique_redactions, WHITELIST)
    IN  /\ entity_mapping' = r.mapping
        /\ unique_redactions' = r.audit
        /\ substituted' = substituted \cup Splices(t, es, r.subs, filename)

\* anonymize_docx_full: one run (or footnote / comment text element)
DocxRun(t, es) ==
    /\ pc = "file"
    /\ Ext(filename) = ".docx"
    /\ units < MaxUnits
    /\ units' = units + 1
    /\ IF Strip(t) # ""
       THEN CallAnonymize(t, es)
       ELSE UNCHANGED <<entity_mapping, unique_redactions, substituted>>
    /\ UNCHANGED <<pc, leftover, mode, WHITELIST, filename, processed, failed, blacked, text,
                   ents, subs, new_text, annots, log, replacement_log>>

\* anonymize_excel: one cell
ExcelCell(t, es) ==
    /\ pc = "file"
    /\ Ext(filename) = ".xlsx"
    /\ units < MaxUnits
    /\ units' = units + 1
    /\ IF t # ""
       THEN CallAnonymize(t, es)
       ELSE UNCHANGED <<entity_mapping, unique_redactions, substituted>>
    /\ UNCHANGED <<pc, leftover, mode, WHITELIST, filename, processed, failed, blacked, text,
                   ents, subs, new_text, annots, log, replacement_log>>

\* redact_pdf: one page
PdfPage(t, es) ==
    /\ pc = "file"
    /\ Ext(filename) = ".pdf"
    /\ units < MaxUnits
    /\ units' = units + 1
    /\ LET r == redact_pdf_page(t, es, filename, unique_redactions)
       IN  /\ blacked' = blacked \cup {<<filename, a[1]>> : a \in r.annots}
           /\ unique_redactions' = r.audit
    /\ UNCHANGED <<pc, leftover, mode, WHITELIST, entity_mapping, filename, processed, failed,
                   substituted, text, ents, subs, new_text, annots, log, replacement_log>>

\* What the driver does once the file's function has returned or raised:
\* process_folder goes on with the loop, process_single_file saves the log.
AfterFile ==
    IF mode = "2"
    THEN pc' = "folder" /\ UNCHANGED log
    ELSE pc' = "main" /\ log' = save_replacement_log(unique_redactions)

\* the document is saved and the file's function returns
FileSaved ==
    /\ pc = "file"
    /\ AfterFile
    /\ UNCHANGED <<leftover, mode, WHITELIST, entity_mapping, unique_redactions, filename,
                   processed, failed, units, substituted, blacked, text, ents, subs,
                   new_text, annots, replacement_log>>

\* the file's function raises (opening, detecting or saving); the except
\* clause of the driver prints the error
FileRaises ==
    /\ pc = "file"
    /\ failed' = failed \cup {filename}
    /\ AfterFile
    /\ UNCHANGED <<leftover, mode, WHITELIST, entity_mapping, unique_redactions, filename,
                   processed, units, substituted, blacked, text, ents, subs, new_text,
                   annots, replacement_log>>

Next ==
    \/ \E m \in {"1", "2", "3"}, wl \in Whitelists, paths_exist \in BOOLEAN :
          Main(m, wl, paths_exist)
    \/ \E f \in Files : SingleDispatch(f)
    \/ \E f \in Files : FolderNext(f)
    \/ FolderEnd
    \/ \E t \in Corpus : \E es \in CorpusDetections(t) : DocxRun(t, es)
    \/ \E t \in Corpus : \E es \in CorpusDetections(t) : ExcelCell(t, es)
    \/ \E t \in Corpus : \E es \in CorpusDetections(t) : PdfPage(t, es)
    \/ FileSaved
    \/ FileRaises

Spec == Init /\ [][Next]_vars

----------------------------------------------------------------------------
(* One call in detail.  SpecCall starts where a session stands after at most
   one earlier text unit and performs one call, keeping its argument, the
   detector's answer and its result. *)

TextFiles == {"a.docx", "b.xlsx"}

\* An earlier unit of the session: none, or one text holding one occurrence
PriorUnits ==
    {[file |-> ""]} \cup
    {[file |-> f, t |-> t, es |-> <<[start |-> 0, end |-> Len(t), label |-> l]>>] :
        f \in {"a.docx", "c.pdf"}, t \in Texts \ {""}, l \in Labels}

\* The globals and histories once the earlier unit is done
AfterPrior(p, wl) ==
    IF p.file = ""
    THEN [mapping |-> <<>>, audit |-> <<>>, substituted |-> {}, blacked |-> {}]
    ELSE IF Ext(p.file) = ".pdf"
    THEN LET r == redact_pdf_page(p.t, p.es, p.file, <<>>)
         IN  [mapping |-> <<>>, audit |-> r.audit, substituted |-> {},
              blacked |-> {<<p.file, a[1]>> : a \in r.annots}]
    ELSE LET r == anonymize_text(p.t, p.es, p.file, <<>>, <<>>, wl)
         IN  [mapping |-> r.mapping, audit |-> r.audit,
              substituted |-> Splices(p.t, p.es, r.subs, p.file), blacked |-> {}]

InitCall ==
    \E wl \in Whitelists, p \in PriorUnits, f \in {"a.docx", "b.xlsx", "c.pdf"} :
      \E t \in Texts \cup {AcmeMetBob} : \E es \in Detections(t) :
        LET g == AfterPrior(p, wl)
        IN  /\ pc = "call"
            /\ leftover = FALSE
            /\ mode = "2"
            /\ WHITELIST = wl
            /\ entity_mapping = g.mapping
            /\ unique_redactions = g.audit
            /\ filename = f
            /\ processed = {f} \cup ({p.file} \ {""})
            /\ failed = {}
            /\ units = IF p.file = "" THEN 0 ELSE 1
            /\ substituted = g.substituted
            /\ blacked = g.blacked
            /\ text = t
            /\ ents = es
            /\ subs = <<>>
            /\ new_text = ""
            /\ annots = {}
            /\ log = NoLog
            /\ replacement_log = <<>>

\* doc_anonymizer.py: anonymize_text(text, filename) for a run or a cell
CallText ==
    /\ pc = "call"
    /\ filename \in TextFiles
    /\ IF Ext(filename) = ".docx" THEN Strip(text) # "" ELSE text # ""
    /\ LET r == anonymize_text(text, ents, filename, entity_mapping, unique_redactions,
                               WHITELIST)
       IN  /\ subs' = r.subs
           /\ new_text' = r.new_text
    /\ CallAnonymize(text, ents)
    /\ units' = units + 1
    /\ pc' = "returned"
    /\ UNCHANGED <<leftover, mode, WHITELIST, filename, processed, failed, blacked, text,
                   ents, annots, log, replacement_log>>

\* doc_anonymizer.py: redact_pdf, the body of the loop for a page
CallPage ==
    /\ pc = "call"
    /\ Ext(filename) = ".pdf"
    /\ LET r == redact_pdf_page(text, ents, filename, unique_redactions)
       IN  /\ annots' = r.annots
           /\ unique_redactions' = r.audit
           /\ blacked' = blacked \cup {<<filename, a[1]>> : a \in r.annots}
    /\ units' = units + 1
    /\ pc' = "returned"
    /\ UNCHANGED <<leftover, mode, WHITELIST, entity_mapping, filename, processed, failed,
                   substituted, text, ents, subs, new_text, log, replacement_log>>

\* multiformats_anonymizer.py: anonymize_text(text); that program has no
\* whitelist and no mapping
CallTextMF ==
    /\ pc = "call"
    /\ filename = "a.docx"
    /\ WHITELIST = {}
    /\ units = 0
    /\ Strip(text) # ""
    /\ LET r == anonymize_text_mf(text, ents, replacement_log)
       IN  /\ subs' = r.subs
           /\ new_text' = r.new_text
           /\ replacement_log' = r.rlog
    /\ pc' = "returned_mf"
    /\ UNCHANGED <<leftover, mode, WHITELIST, entity_mapping, unique_redactions, filename,
                   processed, failed, units, substituted, blacked, text, ents, annots, log>>

NextCall == CallText \/ CallPage \/ CallTextMF

SpecCall == InitCall /\ [][NextCall]_vars

----------------------------------------------------------------------------
(* Properties *)

\* the four supported categories
FourLabels == {"ORG", "PERSON", "GPE", "PRODUCT"}

Width(e) == e.end - e.start

\* Offset in the returned text of occurrence i: its start moved by the growth
\* of every replaced occurrence to its left
RECURSIVE Growth(_, _, _)
Growth(es, ss, i) ==
    IF i = 0 THEN 0
    ELSE Growth(es, ss, i - 1) + (IF ss[i] = NONE THEN 0 ELSE Len(ss[i]) - Width(es[i]))

OutPos(es, ss, i) == es[i].start + Growth(es, ss, i - 1)

\* the returned text nt shows x at the place of occurrence i
ShowsAt(nt, es, ss, i, x) == Slice(nt, OutPos(es, ss, i), OutPos(es, ss, i) + Len(x)) = x

\* Simultaneous replacement, built left to right: the text between the
\* occurrences is copied, occurrence i becomes ss[i] unless ss[i] is NONE
RECURSIVE SimulFrom(_, _, _, _, _)
SimulFrom(t, es, ss, i, pos) ==
    IF i > Len(es) THEN SliceFrom(t, pos)
    ELSE Slice(t, pos, es[i].start)
         \o (IF ss[i] = NONE THEN EntText(t, es[i]) ELSE ss[i])
         \o SimulFrom(t, es, ss, i + 1, es[i].end)

Simultaneous(t, es, ss) == SimulFrom(t, es, ss, 1, 0)

AuditSet == BagToSet(unique_redactions)

TextCallReturned == pc = "returned" /\ filename \in TextFiles
PageReturned == pc = "returned" /\ Ext(filename) = ".pdf"

\* C1: within a session an entry of entity_mapping is never changed once
\* created, and every occurrence anonymize_text replaces is replaced by the
\* placeholder mapped to its surface text, whatever its label: the first
\* sighting wins.
C1_FirstSightingWins ==
    [][pc = "call" =>
        /\ \A s \in DOMAIN entity_mapping :
              s \in DOMAIN entity_mapping' /\ entity_mapping'[s] = entity_mapping[s]
        /\ (pc' = "returned" /\ filename \in TextFiles) =>
              \A i \in 1..Len(ents) :
                 LET s == EntText(text, ents[i])
                 IN  (ents[i].label \in FourLabels /\ s \notin WHITELIST) =>
                        /\ s \in DOMAIN entity_mapping'
                        /\ subs'[i] = entity_mapping'[s]
                        /\ ShowsAt(new_text', ents, subs', i, entity_mapping'[s])]_vars

\* a surface text mapped in a.docx as an organisation is sighted in b.xlsx
\* as a person and replaced by the organisation placeholder
C1_Witness ==
    /\ TextCallReturned
    /\ filename = "b.xlsx"
    /\ \E r \in substituted : r[1] = "a.docx" /\ r[3] = "[ORG_NAME]" /\
          \E i \in 1..Len(ents) :
             /\ EntText(text, ents[i]) = r[2]
             /\ ents[i].label = "PERSON"
             /\ subs[i] = "[ORG_NAME]"

\* C2: anonymize_text leaves an occurrence whose text is whitelisted in place,
\* never makes a whitelisted string a key of entity_mapping and adds no audit
\* record with a whitelisted original.
C2_WhitelistText ==
    [][(pc = "call" /\ pc' = "returned" /\ filename \in TextFiles) =>
        /\ \A i \in 1..Len(ents) :
              EntText(text, ents[i]) \in WHITELIST =>
                 /\ subs'[i] = NONE
                 /\ ShowsAt(new_text', ents, subs', i, EntText(text, ents[i]))
        /\ \A s \in WHITELIST : s \notin DOMAIN entity_mapping'
        /\ \A r \in BagToSet(unique_redactions') \ BagToSet(unique_redactions) :
              r[2] \notin WHITELIST]_vars

\* a whitelisted occurrence of a supported category stands to the right of a
\* replaced one
C2_Witness ==
    /\ TextCallReturned
    /\ \E i \in 1..Len(ents) :
          /\ EntText(text, ents[i]) \in WHITELIST
          /\ ents[i].label \in FourLabels
          /\ \E j \in 1..(i - 1) : subs[j] # NONE

\* C3: redact_pdf registers no redaction area and adds no audit record for a
\* whitelisted string.
C3_WhitelistPdf ==
    /\ \A r \in AuditSet : r[2] \notin WHITELIST
    /\ \A b \in blacked : b[2] \notin WHITELIST

\* C4: unique_redactions holds every triple once, however often it is added.
C4_SetSemantics == \A r \in AuditSet : CopiesIn(r, unique_redactions) = 1

\* a page on which one word has two areas and a single label, so that its
\* triple was added twice
C4_Witness ==
    /\ PageReturned
    /\ \E a1 \in annots, a2 \in annots :
          /\ a1[1] = a2[1]
          /\ a1[2] # a2[2]
          /\ Cardinality({r \in AuditSet : r[1] = filename /\ r[2] = a1[1]}) = 1

\* C5: the log written at the end holds a record for every substitution
\* anonymize_text made in every file.
C5_EverySubstitutionLogged == log.written => substituted \subseteq log.rows

\* C6: for occurrences ordered by start and not overlapping, the returned
\* text is the simultaneous replacement of every redactable occurrence by its
\* placeholder, in both programs.
C6_SpliceIsSimultaneous ==
    /\ TextCallReturned =>
          new_text = Simultaneous(text, ents,
              [i \in 1..Len(ents) |->
                  LET s == EntText(text, ents[i])
                  IN  IF ents[i].label \in FourLabels /\ s \notin WHITELIST
                         /\ s \in DOMAIN entity_mapping
                      THEN entity_mapping[s] ELSE NONE])
    /\ pc = "returned_mf" =>
          new_text = Simultaneous(text, ents,
              [i \in 1..Len(ents) |->
                  IF ents[i].label \in FourLabels
                  THEN CUSTOM_LABELS_MF[ents[i].label] ELSE NONE])

\* "Acme met Bob" with (0,4,ORG) and (9,12,PERSON)
C6_Witness ==
    /\ TextCallReturned
    /\ text = AcmeMetBob
    /\ ents = AcmeMetBobEnts
    /\ new_text = "[ORG_NAME] met [PERSON]"

\* C7: an occurrence outside the four supported categories is left in place
\* and unrecorded by anonymize_text and by redact_pdf; a text without
\* occurrences is returned as it is, with both globals unchanged.
C7_CategoryClosure ==
    [][(pc = "call" /\ pc' = "returned") =>
        LET supported == {EntText(text, ents[i]) :
                             i \in {j \in 1..Len(ents) : ents[j].label \in FourLabels}}
        IN  /\ (DOMAIN entity_mapping') \ (DOMAIN entity_mapping) \subseteq supported
            /\ \A r \in BagToSet(unique_redactions') \ BagToSet(unique_redactions) :
                  r[2] \in supported
            /\ \A a \in annots' : a[1] \in supported
            /\ filename \in TextFiles =>
                  /\ \A i \in 1..Len(ents) :
                        ents[i].label \notin FourLabels =>
                           /\ subs'[i] = NONE
                           /\ ShowsAt(new_text', ents, subs', i, EntText(text, ents[i]))
                  /\ ents = <<>> =>
                        /\ new_text' = text
                        /\ entity_mapping' = entity_mapping
                        /\ unique_redactions' = unique_redactions]_vars

\* an occurrence of an unsupported category to the right of a replaced one
C7_Witness ==
    /\ TextCallReturned
    /\ \E i \in 1..Len(ents) :
          /\ ents[i].label \notin FourLabels
          /\ \E j \in 1..(i - 1) : subs[j] # NONE

\* C8: when process_single_file or process_folder is entered, entity_mapping
\* and unique_redactions are empty.
C8_RunStartsEmpty ==
    (pc = "single" \/ (pc = "folder" /\ processed = {})) =>
        DOMAIN entity_mapping = {} /\ AuditSet = {}

\* a run started while entity_mapping held entries of an earlier one
C8_Witness == leftover /\ pc = "folder" /\ processed = {} /\ DOMAIN entity_mapping = {}

\* C9: the log written at the end holds no record of a file whose processing
\* raised.
C9_FailedFileNotLogged == log.written => \A r \in log.rows : r[1] \notin failed

\* C10: every audit record <<f, s, p>> has s mapped to p in entity_mapping.
C10_AuditAgreesWithLedger ==
    \A r \in AuditSet : r[2] \in DOMAIN entity_mapping /\ entity_mapping[r[2]] = r[3]

====
